---- MODULE Spec2Model ----
(***************************************************************************)
(* Model of the TradeView backtester: BaseStrategy and its subclasses      *)
(* (strategies/), and BacktestEngine.run (backtester/engine.py).           *)
(*                                                                         *)
(* Python floats are modelled as exact rationals <<n, d>> with d > 0 and   *)
(* gcd(n, d) = 1; None is the empty tuple <<>>.                            *)
(***************************************************************************)
EXTENDS Integers, Sequences, FiniteSets, TLC

(* ---------------- bounds of the model ---------------- *)
MaxBars == 4          \* longest bar series handed to an engine
MaxPrice == 2         \* closes are drawn from 0..MaxPrice
MaxPeriod == 2        \* fast_period, slow_period are drawn from 1..MaxPeriod
MaxCustomBars == 3    \* longest bar series run through a user-written subclass
MaxCalls == 3         \* direct buy/sell/reset calls made on one strategy
MaxAlternatingBars == 6   \* longest bar series run through the strategy trading on every bar
MaxPolls == 3             \* scheduled jobs of the monitoring service that are followed

(* ---------------- exact arithmetic standing for float ---------------- *)
None == <<>>

Abs(x) == IF x < 0 THEN -x ELSE x

RECURSIVE GCD(_, _)
GCD(a, b) == IF b = 0 THEN a ELSE GCD(b, a % b)

Norm(n, d) ==
    LET g == GCD(Abs(n), Abs(d))
        s == IF d < 0 THEN -1 ELSE 1
    IN  <<(s * n) \div g, (s * d) \div g>>

Rat(n) == <<n, 1>>
Zero == Rat(0)

(* common factors are divided out before multiplying, to stay in 32 bits *)
RAdd(a, b) ==
    LET g == GCD(a[2], b[2])
    IN  Norm(a[1] * (b[2] \div g) + b[1] * (a[2] \div g), (a[2] \div g) * b[2])
RSub(a, b) == RAdd(a, <<-b[1], b[2]>>)
RMul(a, b) ==
    LET g1 == GCD(Abs(a[1]), Abs(b[2]))
        g2 == GCD(Abs(b[1]), Abs(a[2]))
    IN  Norm((a[1] \div g1) * (b[1] \div g2), (a[2] \div g2) * (b[2] \div g1))
RDiv(a, b) == RMul(a, <<b[2], b[1]>>)
RLt(a, b) ==
    LET g == GCD(a[2], b[2])
    IN  a[1] * (b[2] \div g) < b[1] * (a[2] \div g)
RLe(a, b) ==
    LET g == GCD(a[2], b[2])
    IN  a[1] * (b[2] \div g) <= b[1] * (a[2] \div g)
RGt(a, b) == RLt(b, a)
RGe(a, b) == RLe(b, a)

RECURSIVE RSumRange(_, _, _)
RSumRange(s, lo, hi) ==
    IF lo > hi THEN Zero
    ELSE IF lo = hi THEN s[lo]
    ELSE LET mid == (lo + hi) \div 2
         IN  RAdd(RSumRange(s, lo, mid), RSumRange(s, mid + 1, hi))
RSum(s) == RSumRange(s, 1, Len(s))

Last(s) == s[Len(s)]
LastN(s, n) == SubSeq(s, Len(s) - n + 1, Len(s))

(* Python truthiness of an Optional[float]: None and 0.0 are falsy *)
Truthy(x) == x # None /\ x # Zero

(* ---------------- program constants ---------------- *)
DefaultCash == Rat(100000)
CashFraction == <<19, 20>>

(* ---------------- inputs ---------------- *)
Prices == 0..MaxPrice
Periods == 1..MaxPeriod
Kinds == {"MACross", "Template", "Custom"}
Capitals == {Rat(1000)}

RECURSIVE SeqsUpTo(_, _)
SeqsUpTo(S, n) ==
    IF n = 0 THEN {<<>>}
    ELSE LET shorter == SeqsUpTo(S, n - 1)
         IN  shorter \cup {Append(s, x) : s \in {t \in shorter : Len(t) = n - 1}, x \in S}

(* A data frame row: the open is the previous close, high/low bracket them *)
Row(cs, k) ==
    LET c == cs[k]
        o == IF k = 1 THEN cs[1] ELSE cs[k - 1]
    IN  [datetime |-> k,
         open |-> Rat(o),
         high |-> Rat(IF o > c THEN o ELSE c),
         low |-> Rat(IF o < c THEN o ELSE c),
         close |-> Rat(c),
         volume |-> Zero]

Frame(cs) == [k \in 1..Len(cs) |-> Row(cs, k)]

VARIABLES
    kind, ma_type, fast_period, slow_period,      \* strategy class and params
    position, cash, entry_price,                  \* BaseStrategy state
    prices, fast_ma, slow_ma, prev_fast_ma, prev_slow_ma,
    fast_ma_history, slow_ma_history,             \* indicator buffers
    custom_signal,                                \* answers of a user-written subclass
    data, initial_capital,                        \* BacktestEngine inputs
    trades, equity_curve, signals,                \* BacktestEngine logs
    idx, pc,                                      \* position of run() in its loop
    call, ret,                                    \* last buy/sell call and what it returned
    ncalls,                                       \* direct calls made so far
    results,                                      \* what the current run() returned: <<>> or <<report>>
    prior,                                        \* what the caller kept of an earlier run: <<>> or <<record>>
    LAST_SIGNALS, STOCK_DATA,                     \* the monitoring service's caches
    signals_found, watch,                         \* monitor_stocks(): its result list and place in WATCHLIST
    polled,                                       \* what the last iteration of monitor_stocks() met and did
    npolls                                        \* scheduled jobs started so far

strat == <<position, cash, entry_price>>
params == <<kind, ma_type, fast_period, slow_period>>
buffers == <<prices, fast_ma, slow_ma, prev_fast_ma, prev_slow_ma,
             fast_ma_history, slow_ma_history>>
logs == <<trades, equity_curve, signals>>
monitor == <<LAST_SIGNALS, STOCK_DATA, signals_found, watch, polled, npolls>>
backtest == <<params, strat, buffers, custom_signal, data, initial_capital,
              logs, idx, pc, call, ret, ncalls, results, prior>>
vars == <<backtest, monitor>>

NoCall == [op |-> "none", price |-> None, size |-> None]

(* ---------------- BaseStrategy ---------------- *)
State == [position |-> position, cash |-> cash, entry_price |-> entry_price]

(* the whole of the cash put into the order *)
get_position_size_all_cash(s) ==
    IF Truthy(s.entry_price)
    THEN RDiv(s.cash, s.entry_price)
    ELSE Zero

get_position_size(s) ==
    IF Truthy(s.entry_price)
    THEN RDiv(RMul(s.cash, CashFraction), s.entry_price)
    ELSE Zero

(* buy() refusing an order that costs exactly the available cash *)
buy_refuses_exact_cost(s, price, size) ==
    IF RGt(s.position, Zero)
    THEN [ret |-> FALSE, state |-> s]
    ELSE LET sz == IF size = None THEN get_position_size(s) ELSE size
             cost == RMul(price, sz)
         IN  IF RGe(cost, s.cash)
             THEN [ret |-> FALSE, state |-> s]
             ELSE [ret |-> TRUE,
                   state |-> [position |-> sz,
                              entry_price |-> price,
                              cash |-> RSub(s.cash, cost)]]

(* buy() charging a commission of one thousandth of the cost *)
buy_charging_commission(s, price, size) ==
    IF RGt(s.position, Zero)
    THEN [ret |-> FALSE, state |-> s]
    ELSE LET sz == IF size = None THEN get_position_size(s) ELSE size
             cost == RMul(price, sz)
         IN  IF RGt(cost, s.cash)
             THEN [ret |-> FALSE, state |-> s]
             ELSE [ret |-> TRUE,
                   state |-> [position |-> sz,
                              entry_price |-> price,
                              cash |-> RSub(s.cash, RMul(cost, <<1001, 1000>>))]]

buy(s, price, size) ==
    IF RGt(s.position, Zero)
    THEN [ret |-> FALSE, state |-> s]
    ELSE LET sz == IF size = None THEN get_position_size(s) ELSE size
             cost == RMul(price, sz)
         IN  IF RGt(cost, s.cash)
             THEN [ret |-> FALSE, state |-> s]
             ELSE [ret |-> TRUE,
                   state |-> [position |-> sz,
                              entry_price |-> price,
                              cash |-> RSub(s.cash, cost)]]

(* sell() without the clamp of the size to the position held *)
sell_without_clamp(s, price, size) ==
    IF RLe(s.position, Zero)
    THEN [ret |-> FALSE, state |-> s]
    ELSE LET sz == IF size = None THEN s.position ELSE size
             proceeds == RMul(price, sz)
             pos == RSub(s.position, sz)
         IN  [ret |-> TRUE,
              state |-> [position |-> pos,
                         entry_price |-> IF pos = Zero THEN None ELSE s.entry_price,
                         cash |-> RAdd(s.cash, proceeds)]]

(* sell() taking the proceeds off the cash *)
sell_debiting_proceeds(s, price, size) ==
    IF RLe(s.position, Zero)
    THEN [ret |-> FALSE, state |-> s]
    ELSE LET sz0 == IF size = None THEN s.position ELSE size
             sz == IF RGt(sz0, s.position) THEN s.position ELSE sz0
             proceeds == RMul(price, sz)
             pos == RSub(s.position, sz)
         IN  [ret |-> TRUE,
              state |-> [position |-> pos,
                         entry_price |-> IF pos = Zero THEN None ELSE s.entry_price,
                         cash |-> RSub(s.cash, proceeds)]]

sell(s, price, size) ==
    IF RLe(s.position, Zero)
    THEN [ret |-> FALSE, state |-> s]
    ELSE LET sz0 == IF size = None THEN s.position ELSE size
             sz == IF RGt(sz0, s.position) THEN s.position ELSE sz0
             proceeds == RMul(price, sz)
             pos == RSub(s.position, sz)
         IN  [ret |-> TRUE,
              state |-> [position |-> pos,
                         entry_price |-> IF pos = Zero THEN None ELSE s.entry_price,
                         cash |-> RAdd(s.cash, proceeds)]]

BaseReset == [position |-> Zero, cash |-> DefaultCash, entry_price |-> None]

(* ---------------- MACrossStrategy / TemplateStrategy ---------------- *)
calculate_sma(ps, period) ==
    IF Len(ps) < period THEN None
    ELSE RDiv(RSum(LastN(ps, period)), Rat(period))

calculate_ema(ps, current_price, prev_ema, multiplier, period) ==
    IF prev_ema = None
    THEN IF Len(ps) >= period
         THEN RDiv(RSum(LastN(ps, period)), Rat(period))
         ELSE None
    ELSE RAdd(RMul(RSub(current_price, prev_ema), multiplier), prev_ema)

Multiplier(period) == Norm(2, period + 1)

MACross_on_bar(bar) ==
    LET ps == Append(prices, bar.close) IN
    /\ prices' = ps
    /\ prev_fast_ma' = fast_ma
    /\ prev_slow_ma' = slow_ma
    /\ IF ma_type = "EMA"
       THEN /\ fast_ma' = calculate_ema(ps, bar.close, fast_ma,
                                        Multiplier(fast_period), fast_period)
            /\ slow_ma' = calculate_ema(ps, bar.close, slow_ma,
                                        Multiplier(slow_period), slow_period)
       ELSE /\ fast_ma' = calculate_sma(ps, fast_period)
            /\ slow_ma' = calculate_sma(ps, slow_period)
    /\ fast_ma_history' = Append(fast_ma_history, fast_ma')
    /\ slow_ma_history' = Append(slow_ma_history, slow_ma')
    /\ UNCHANGED custom_signal

Template_on_bar(bar) ==
    LET ps == Append(prices, bar.close) IN
    /\ prices' = ps
    /\ IF Len(ps) >= fast_period
       THEN /\ prev_fast_ma' = fast_ma
            /\ fast_ma' = RDiv(RSum(LastN(ps, fast_period)), Rat(fast_period))
       ELSE UNCHANGED <<prev_fast_ma, fast_ma>>
    /\ IF Len(ps) >= slow_period
       THEN /\ prev_slow_ma' = slow_ma
            /\ slow_ma' = RDiv(RSum(LastN(ps, slow_period)), Rat(slow_period))
       ELSE UNCHANGED <<prev_slow_ma, slow_ma>>
    /\ UNCHANGED <<fast_ma_history, slow_ma_history, custom_signal>>

(* A subclass written against the abstract base: on_bar moves it to any    *)
(* internal state, which fixes what should_buy / should_sell answer.       *)
Custom_on_bar(bar) ==
    /\ custom_signal' \in [buy : BOOLEAN, sell : BOOLEAN]
    /\ UNCHANGED buffers

on_bar(bar) ==
    CASE kind = "MACross" -> MACross_on_bar(bar)
      [] kind = "Template" -> Template_on_bar(bar)
      [] OTHER -> Custom_on_bar(bar)

(* should_buy() without its  if self.position > 0  guard *)
MACross_should_buy_unguarded ==
    IF None \in {fast_ma, slow_ma, prev_fast_ma, prev_slow_ma} THEN FALSE
    ELSE RLe(prev_fast_ma, prev_slow_ma) /\ RGt(fast_ma, slow_ma)

(* a missing previous average read as the fast one not having been above *)
MACross_should_buy_without_previous ==
    IF RGt(position, Zero) THEN FALSE
    ELSE IF None \in {fast_ma, slow_ma} THEN FALSE
    ELSE IF None \in {prev_fast_ma, prev_slow_ma} THEN RGt(fast_ma, slow_ma)
    ELSE RLe(prev_fast_ma, prev_slow_ma) /\ RGt(fast_ma, slow_ma)

(* the cross also taken where the fast average only reaches the slow one *)
MACross_should_buy_at_touch ==
    IF RGt(position, Zero) THEN FALSE
    ELSE IF None \in {fast_ma, slow_ma, prev_fast_ma, prev_slow_ma} THEN FALSE
    ELSE RLe(prev_fast_ma, prev_slow_ma) /\ RGe(fast_ma, slow_ma)

MACross_should_buy ==
    IF RGt(position, Zero) THEN FALSE
    ELSE IF None \in {fast_ma, slow_ma, prev_fast_ma, prev_slow_ma} THEN FALSE
    ELSE RLe(prev_fast_ma, prev_slow_ma) /\ RGt(fast_ma, slow_ma)

MACross_should_sell ==
    IF RLe(position, Zero) THEN FALSE
    ELSE IF None \in {fast_ma, slow_ma, prev_fast_ma, prev_slow_ma} THEN FALSE
    ELSE RGe(prev_fast_ma, prev_slow_ma) /\ RLt(fast_ma, slow_ma)

(* missing previous averages taken as the fast one having been below *)
Template_should_buy_without_previous ==
    IF RGt(position, Zero) THEN FALSE
    ELSE IF fast_ma = None \/ slow_ma = None THEN FALSE
    ELSE IF prev_fast_ma = None \/ prev_slow_ma = None THEN RGt(fast_ma, slow_ma)
    ELSE RLe(prev_fast_ma, prev_slow_ma) /\ RGt(fast_ma, slow_ma)

Template_should_buy ==
    IF RGt(position, Zero) THEN FALSE
    ELSE IF fast_ma = None \/ slow_ma = None THEN FALSE
    ELSE IF prev_fast_ma = None \/ prev_slow_ma = None THEN FALSE
    ELSE RLe(prev_fast_ma, prev_slow_ma) /\ RGt(fast_ma, slow_ma)

Template_should_sell ==
    IF RLe(position, Zero) THEN FALSE
    ELSE IF fast_ma = None \/ slow_ma = None THEN FALSE
    ELSE IF prev_fast_ma = None \/ prev_slow_ma = None THEN FALSE
    ELSE RGe(prev_fast_ma, prev_slow_ma) /\ RLt(fast_ma, slow_ma)

should_buy ==
    CASE kind = "MACross" -> MACross_should_buy
      [] kind = "Template" -> Template_should_buy
      [] OTHER -> custom_signal.buy

should_sell ==
    CASE kind = "MACross" -> MACross_should_sell
      [] kind = "Template" -> Template_should_sell
      [] OTHER -> custom_signal.sell

(* the part of reset() each subclass adds to the base reset *)
(* a reset() override that forgets the price history *)
reset_buffers_keeps_prices ==
    /\ UNCHANGED prices
    /\ fast_ma' = None
    /\ slow_ma' = None
    /\ prev_fast_ma' = None
    /\ prev_slow_ma' = None
    /\ fast_ma_history' = <<>>
    /\ slow_ma_history' = <<>>
    /\ UNCHANGED custom_signal

reset_buffers ==
    /\ CASE kind = "MACross" ->
              /\ prices' = <<>>
              /\ fast_ma' = None
              /\ slow_ma' = None
              /\ prev_fast_ma' = None
              /\ prev_slow_ma' = None
              /\ fast_ma_history' = <<>>
              /\ slow_ma_history' = <<>>
         [] kind = "Template" ->
              /\ prices' = <<>>
              /\ fast_ma' = None
              /\ slow_ma' = None
              /\ prev_fast_ma' = None
              /\ prev_slow_ma' = None
              /\ UNCHANGED <<fast_ma_history, slow_ma_history>>
         [] OTHER -> UNCHANGED buffers
    /\ UNCHANGED custom_signal

SetState(s) ==
    /\ position' = s.position
    /\ cash' = s.cash
    /\ entry_price' = s.entry_price

(* reset() of the strategy class at hand; each override chains to the base *)
reset ==
    /\ SetState(BaseReset)
    /\ reset_buffers

(* ---------------- BacktestEngine.run ---------------- *)
isoformat(ts) == ToString(ts)

(* a fill at the bar's open instead of its close *)
current_price_at_open == data[idx].open

(* a fill at the close of the bar after this one *)
current_price_at_next_close ==
    data[IF idx < Len(data) THEN idx + 1 ELSE idx].close

current_price == data[idx].close

trade_record(type, size) ==
    [datetime |-> isoformat(data[idx].datetime), type |-> type,
     price |-> current_price, size |-> size]

signal_record(type) ==
    [datetime |-> isoformat(data[idx].datetime), signal |-> type,
     price |-> current_price]

(* run() without  strategy.cash = initial_capital  after the reset *)
run_start_state_default_cash == BaseReset

(* strategy.reset() followed by  strategy.cash = initial_capital *)
run_start_state == [BaseReset EXCEPT !.cash = initial_capital]

StartRun(verbose) ==
    /\ pc \in {"constructed", "done"}
    /\ IF verbose /\ Len(data) = 0
       THEN /\ pc' = "raised"       \* data.index[0] of an empty frame
            /\ UNCHANGED <<strat, buffers, custom_signal, logs, idx>>
       ELSE /\ SetState(run_start_state)
            /\ reset_buffers
            /\ trades' = <<>>
            /\ equity_curve' = <<>>
            /\ signals' = <<>>
            /\ idx' = IF Len(data) = 0 THEN 0 ELSE 1
            /\ pc' = IF Len(data) = 0 THEN "metrics" ELSE "on_bar"
    /\ call' = NoCall
    /\ ret' = FALSE
    /\ results' = <<>>
    /\ UNCHANGED <<monitor, params, data, initial_capital, ncalls>>

OnBar ==
    /\ pc = "on_bar"
    /\ on_bar(data[idx])
    /\ pc' = "signal"
    /\ UNCHANGED <<monitor, params, strat, data, initial_capital, logs, idx, call, ret, ncalls, results, prior>>

(* a loop that stops at the first buy that returns false *)
BuyBranch_stopping_on_failure ==
    /\ pc = "signal"
    /\ should_buy
    /\ LET s1 == [State EXCEPT !.entry_price = current_price]
           size == get_position_size(s1)
           r == buy(s1, current_price, size)
       IN  /\ SetState(r.state)
           /\ call' = [op |-> "buy", price |-> current_price, size |-> size]
           /\ ret' = r.ret
           /\ IF r.ret
              THEN /\ trades' = Append(trades, trade_record("BUY", r.state.position))
                   /\ signals' = Append(signals, signal_record("BUY"))
                   /\ pc' = "equity"
              ELSE /\ UNCHANGED <<trades, signals>>
                   /\ pc' = "metrics"
    /\ UNCHANGED <<monitor, params, buffers, custom_signal, data, initial_capital,
                   equity_curve, idx, ncalls, results, prior>>

(* the BUY signal logged from should_buy(), before the order is known to *)
(* be filled                                                             *)
BuyBranch_signalling_before_fill ==
    /\ pc = "signal"
    /\ should_buy
    /\ LET s1 == [State EXCEPT !.entry_price = current_price]
           size == get_position_size(s1)
           r == buy(s1, current_price, size)
       IN  /\ SetState(r.state)
           /\ call' = [op |-> "buy", price |-> current_price, size |-> size]
           /\ ret' = r.ret
           /\ signals' = Append(signals, signal_record("BUY"))
           /\ IF r.ret
              THEN trades' = Append(trades, trade_record("BUY", r.state.position))
              ELSE UNCHANGED trades
    /\ pc' = "equity"
    /\ UNCHANGED <<monitor, params, buffers, custom_signal, data, initial_capital,
                   equity_curve, idx, ncalls, results, prior>>

BuyBranch ==
    /\ pc = "signal"
    /\ should_buy
    /\ LET s1 == [State EXCEPT !.entry_price = current_price]
           size == get_position_size(s1)
           r == buy(s1, current_price, size)
       IN  /\ SetState(r.state)
           /\ call' = [op |-> "buy", price |-> current_price, size |-> size]
           /\ ret' = r.ret
           /\ IF r.ret
              THEN /\ trades' = Append(trades, trade_record("BUY", r.state.position))
                   /\ signals' = Append(signals, signal_record("BUY"))
              ELSE UNCHANGED <<trades, signals>>
    /\ pc' = "equity"
    /\ UNCHANGED <<monitor, params, buffers, custom_signal, data, initial_capital,
                   equity_curve, idx, ncalls, results, prior>>

ThisBar == isoformat(data[idx].datetime)

(* the sell check as a second  if  instead of  elif : it also runs on a bar *)
(* whose buy has just been logged                                           *)
SellBranch_after_buy ==
    /\ \/ pc = "signal" /\ ~should_buy
       \/ /\ pc = "equity"
          /\ Len(trades) > 0
          /\ Last(trades).datetime = ThisBar
          /\ Last(trades).type = "BUY"
    /\ should_sell
    /\ LET size == position
           r == sell(State, current_price, None)
       IN  /\ SetState(r.state)
           /\ call' = [op |-> "sell", price |-> current_price, size |-> None]
           /\ ret' = r.ret
           /\ IF r.ret
              THEN /\ trades' = Append(trades, trade_record("SELL", size))
                   /\ signals' = Append(signals, signal_record("SELL"))
              ELSE UNCHANGED <<trades, signals>>
    /\ pc' = "equity"
    /\ UNCHANGED <<monitor, params, buffers, custom_signal, data, initial_capital,
                   equity_curve, idx, ncalls, results, prior>>

(* the SELL trade sized by the position left after the sell *)
SellBranch_size_after_sell ==
    /\ pc = "signal"
    /\ ~should_buy
    /\ should_sell
    /\ LET r == sell(State, current_price, None)
       IN  /\ SetState(r.state)
           /\ call' = [op |-> "sell", price |-> current_price, size |-> None]
           /\ ret' = r.ret
           /\ IF r.ret
              THEN /\ trades' = Append(trades, trade_record("SELL", r.state.position))
                   /\ signals' = Append(signals, signal_record("SELL"))
              ELSE UNCHANGED <<trades, signals>>
    /\ pc' = "equity"
    /\ UNCHANGED <<monitor, params, buffers, custom_signal, data, initial_capital,
                   equity_curve, idx, ncalls, results, prior>>

SellBranch ==
    /\ pc = "signal"
    /\ ~should_buy
    /\ should_sell
    /\ LET size == position
           r == sell(State, current_price, None)
       IN  /\ SetState(r.state)
           /\ call' = [op |-> "sell", price |-> current_price, size |-> None]
           /\ ret' = r.ret
           /\ IF r.ret
              THEN /\ trades' = Append(trades, trade_record("SELL", size))
                   /\ signals' = Append(signals, signal_record("SELL"))
              ELSE UNCHANGED <<trades, signals>>
    /\ pc' = "equity"
    /\ UNCHANGED <<monitor, params, buffers, custom_signal, data, initial_capital,
                   equity_curve, idx, ncalls, results, prior>>

NoSignal ==
    /\ pc = "signal"
    /\ ~should_buy
    /\ ~should_sell
    /\ pc' = "equity"
    /\ UNCHANGED <<monitor, params, strat, buffers, custom_signal, data, initial_capital,
                   logs, idx, call, ret, ncalls, results, prior>>

(* the position valued at the bar's open instead of its close *)
equity_point_at_open ==
    LET position_value == RMul(position, data[idx].open)
        total_value == RAdd(cash, position_value)
    IN  [datetime |-> isoformat(data[idx].datetime),
         value |-> total_value,
         cash |-> cash,
         position_value |-> position_value,
         price |-> current_price]

equity_point ==
    LET position_value == RMul(position, current_price)
        total_value == RAdd(cash, position_value)
    IN  [datetime |-> isoformat(data[idx].datetime),
         value |-> total_value,
         cash |-> cash,
         position_value |-> position_value,
         price |-> current_price]

(* an equity point appended only on the bars that logged a trade *)
AppendEquity_only_on_trade_bars ==
    /\ pc = "equity"
    /\ equity_curve' = IF Len(trades) > 0 /\ Last(trades).datetime = ThisBar
                       THEN Append(equity_curve, equity_point)
                       ELSE equity_curve
    /\ IF idx < Len(data)
       THEN idx' = idx + 1 /\ pc' = "on_bar"
       ELSE idx' = idx /\ pc' = "metrics"
    /\ UNCHANGED <<monitor, params, strat, buffers, custom_signal, data, initial_capital,
                   trades, signals, call, ret, ncalls, results, prior>>

AppendEquity ==
    /\ pc = "equity"
    /\ equity_curve' = Append(equity_curve, equity_point)
    /\ IF idx < Len(data)
       THEN idx' = idx + 1 /\ pc' = "on_bar"
       ELSE idx' = idx /\ pc' = "metrics"
    /\ UNCHANGED <<monitor, params, strat, buffers, custom_signal, data, initial_capital,
                   trades, signals, call, ret, ncalls, results, prior>>

(* ---------------- BacktestEngine._calculate_metrics ---------------- *)
Inf == <<1, 0>>               \* float('inf')

(* round(x, 2): nearest multiple of 1/100, a tie going to the even one *)
round2(x) ==
    LET n == 100 * x[1]
        q == n \div x[2]
        r == n - q * x[2]
        up == \/ 2 * r > x[2]
              \/ 2 * r = x[2] /\ q % 2 = 1
    IN  Norm(IF up THEN q + 1 ELSE q, 100)

buy_trades(tr) == SelectSeq(tr, LAMBDA t : t.type = "BUY")
sell_trades(tr) == SelectSeq(tr, LAMBDA t : t.type = "SELL")

total_trades(tr) ==
    IF Len(buy_trades(tr)) < Len(sell_trades(tr))
    THEN Len(buy_trades(tr)) ELSE Len(sell_trades(tr))

(* the profit taken relative to the sell price *)
profit_pct_over_sell_price(buy_price, sell_price) ==
    RMul(RDiv(RSub(sell_price, buy_price), sell_price), Rat(100))

profit_pct(buy_price, sell_price) ==
    RMul(RDiv(RSub(sell_price, buy_price), buy_price), Rat(100))

(* the i-th BUY paired with the i-th SELL counted from the end *)
profits_last_sell_first(tr) ==
    [i \in 1..total_trades(tr) |->
        profit_pct(buy_trades(tr)[i].price,
                   sell_trades(tr)[total_trades(tr) + 1 - i].price)]

profits(tr) ==
    [i \in 1..total_trades(tr) |->
        profit_pct(buy_trades(tr)[i].price, sell_trades(tr)[i].price)]

(* lost_trades counted with p < 0 *)
lost_trades_strict(ps) == Len(SelectSeq(ps, LAMBDA p : RLt(p, Zero)))

won_trades(ps) == Len(SelectSeq(ps, LAMBDA p : RGt(p, Zero)))
lost_trades(ps) == Len(SelectSeq(ps, LAMBDA p : RLe(p, Zero)))

(* the loop's peak and max_dd after the values lo..hi, entered with
   the peak and max_dd of started; the range is walked in two halves,
   the first one evaluated before the second is entered *)
RECURSIVE drawdown_loop(_, _, _, _)
drawdown_loop(equity_values, lo, hi, started) ==
    IF lo < hi
    THEN LET mid == (lo + hi) \div 2
             half == drawdown_loop(equity_values, lo, mid, started)
         IN  IF half \in {half}
             THEN drawdown_loop(equity_values, mid + 1, hi, half)
             ELSE half
    ELSE LET value == equity_values[lo]
             peak == IF RGt(value, started.peak) THEN value ELSE started.peak
             drawdown == RMul(RDiv(RSub(peak, value), peak), Rat(100))
         IN  [peak |-> peak,
              max_dd |-> IF RGt(drawdown, started.max_dd) THEN drawdown
                         ELSE started.max_dd]

(* the drawdown of the last value from the first one only *)
calculate_max_drawdown_fixed_peak(equity_values) ==
    drawdown_loop(<<equity_values[1], Last(equity_values)>>, 1, 2,
                  [peak |-> equity_values[1], max_dd |-> Zero]).max_dd

calculate_max_drawdown(equity_values) ==
    drawdown_loop(equity_values, 1, Len(equity_values),
                  [peak |-> equity_values[1], max_dd |-> Zero]).max_dd

(* pct_change().dropna() of the equity series *)
daily_returns(equity_values) ==
    [i \in 1..(Len(equity_values) - 1) |->
        IF equity_values[i] = Zero THEN Inf
        ELSE RSub(RDiv(equity_values[i + 1], equity_values[i]), Rat(1))]

(* sqrt(252) * mean / std is kept as the returns it is computed from;       *)
(* std() == 0 exactly when all the returns are equal                        *)
(* the ratio computed whenever there are two returns, constant or not *)
calculate_sharpe_ratio_without_std_guard(equity_values) ==
    LET dr == daily_returns(equity_values)
    IN  IF Len(dr) < 2 THEN [zero |-> TRUE, mean_over_std_of |-> <<>>]
        ELSE [zero |-> FALSE, mean_over_std_of |-> dr]

calculate_sharpe_ratio(equity_values) ==
    LET dr == daily_returns(equity_values)
    IN  IF Len(dr) < 2 THEN [zero |-> TRUE, mean_over_std_of |-> <<>>]
        ELSE IF \A i \in 1..Len(dr) : dr[i] = dr[1]
             THEN [zero |-> TRUE, mean_over_std_of |-> <<>>]
             ELSE [zero |-> FALSE, mean_over_std_of |-> dr]

RECURSIVE losses_loop(_, _, _, _)
losses_loop(ps, i, max_losses, current_losses) ==
    IF i > Len(ps) THEN max_losses
    ELSE IF RLe(ps[i], Zero)
         THEN losses_loop(ps, i + 1,
                          IF current_losses + 1 > max_losses
                          THEN current_losses + 1 ELSE max_losses,
                          current_losses + 1)
         ELSE losses_loop(ps, i + 1, max_losses, 0)

(* every loss counted, a winning pair not ending the run *)
calculate_max_consecutive_losses_total(ps) == lost_trades(ps)

calculate_max_consecutive_losses(ps) == losses_loop(ps, 1, 0, 0)

(* 0 returned where there is profit and no loss *)
calculate_profit_factor_without_inf(ps) ==
    LET gross_profit == RSum(SelectSeq(ps, LAMBDA p : RGt(p, Zero)))
        s == RSum(SelectSeq(ps, LAMBDA p : RLt(p, Zero)))
        gross_loss == <<Abs(s[1]), s[2]>>
    IN  IF gross_loss = Zero
        THEN Zero
        ELSE round2(RDiv(gross_profit, gross_loss))

calculate_profit_factor(ps) ==
    LET gross_profit == RSum(SelectSeq(ps, LAMBDA p : RGt(p, Zero)))
        s == RSum(SelectSeq(ps, LAMBDA p : RLt(p, Zero)))
        gross_loss == <<Abs(s[1]), s[2]>>
    IN  IF gross_loss = Zero
        THEN IF RGt(gross_profit, Zero) THEN Inf ELSE Zero
        ELSE round2(RDiv(gross_profit, gross_loss))

RECURSIVE RMaxOf(_)
RMaxOf(s) ==
    IF Len(s) = 1 THEN s[1]
    ELSE LET m == RMaxOf(Tail(s)) IN IF RGt(s[1], m) THEN s[1] ELSE m

RECURSIVE RMinOf(_)
RMinOf(s) ==
    IF Len(s) = 1 THEN s[1]
    ELSE LET m == RMinOf(Tail(s)) IN IF RLt(s[1], m) THEN s[1] ELSE m

(* the float divisions of _calculate_metrics that raise ZeroDivisionError *)
metrics_raise ==
    /\ equity_curve # <<>>
    /\ \/ initial_capital = Zero
       \/ \E i \in 1..total_trades(trades) : buy_trades(trades)[i].price = Zero
       \/ equity_curve[1].value = Zero

(* a win rate of 100 reported when there is no pair *)
win_rate_full_without_pairs(won, total) ==
    IF total > 0 THEN round2(RMul(Norm(won, total), Rat(100))) ELSE Rat(100)

win_rate(won, total) ==
    IF total > 0 THEN round2(RMul(Norm(won, total), Rat(100))) ELSE Zero

calculate_metrics ==
    IF equity_curve = <<>>
    THEN [final_value |-> initial_capital,
          return_pct |-> Zero,
          total_trades |-> 0,
          error |-> "No data"]
    ELSE
    LET equity_values == [i \in 1..Len(equity_curve) |-> equity_curve[i].value]
        final_value == Last(equity_values)
        total_return == RMul(RDiv(RSub(final_value, initial_capital), initial_capital),
                             Rat(100))
        ps == profits(trades)
        days == data[Len(data)].datetime - data[1].datetime
    IN  [initial_capital |-> initial_capital,
         final_value |-> round2(final_value),
         return_pct |-> round2(total_return),
         annual_return_pct |->
             [base |-> RAdd(RDiv(total_return, Rat(100)), Rat(1)),
              exponent |-> Norm(365, IF days > 1 THEN days ELSE 1)],
         max_drawdown_pct |-> round2(calculate_max_drawdown(equity_values)),
         sharpe_ratio |-> calculate_sharpe_ratio(equity_values),
         total_trades |-> total_trades(trades),
         won_trades |-> won_trades(ps),
         lost_trades |-> lost_trades(ps),
         win_rate |-> win_rate(won_trades(ps), total_trades(trades)),
         avg_profit_pct |-> IF Len(ps) > 0
                            THEN round2(RDiv(RSum(ps), Rat(Len(ps)))) ELSE Zero,
         max_profit_pct |-> IF Len(ps) > 0 THEN round2(RMaxOf(ps)) ELSE Zero,
         max_loss_pct |-> IF Len(ps) > 0 THEN round2(RMinOf(ps)) ELSE Zero,
         max_consecutive_losses |-> calculate_max_consecutive_losses(ps),
         profit_factor |-> calculate_profit_factor(ps),
         start_date |-> isoformat(data[1].datetime),
         end_date |-> isoformat(data[Len(data)].datetime),
         trading_days |-> Len(data),
         trades |-> trades,
         equity_curve |-> equity_curve,
         signals |-> signals]

(* run() selling an open position at the last close before it reports *)
Return_closing_position ==
    /\ pc = "metrics"
    /\ pc' = "done"
    /\ results' = <<calculate_metrics>>
    /\ IF RGt(position, Zero)
       THEN /\ SetState(sell(State, current_price, None).state)
            /\ trades' = Append(trades, trade_record("SELL", position))
       ELSE UNCHANGED <<strat, trades>>
    /\ UNCHANGED <<monitor, params, buffers, custom_signal, data, initial_capital,
                   equity_curve, signals, idx, call, ret, ncalls, prior>>

Return ==
    /\ pc = "metrics"
    /\ IF metrics_raise
       THEN pc' = "raised" /\ results' = <<>>
       ELSE pc' = "done" /\ results' = <<calculate_metrics>>
    /\ UNCHANGED <<monitor, params, strat, buffers, custom_signal, data, initial_capital,
                   logs, idx, call, ret, ncalls, prior>>

(* ---------------- server_trader: monitor_stocks ---------------- *)
WATCHLIST == <<"AAPL", "00700.HK">>
Symbols == {WATCHLIST[i] : i \in 1..Len(WATCHLIST)}
SignalTypes == {"A: BOLL mid", "B: MACD cross", "C: BOLL break"}
NoSignalFound == "None"                 \* check_buy_signals() returned None
Detections == SignalTypes \cup {NoSignalFound}

(* LAST_SIGNALS[symbol]: "absent" for a missing key, "None" for a key    *)
(* holding None, else the type of the signal dict it holds               *)
MonitorStarted ==
    /\ LAST_SIGNALS = [symbol \in Symbols |-> "absent"]
    /\ STOCK_DATA = {}
    /\ signals_found = <<>>
    /\ watch = 0
    /\ polled = [symbol |-> "", detected |-> "unknown", alerted |-> FALSE,
                 raised |-> FALSE]
    /\ npolls = 0

(* scheduled_job() entering monitor_stocks() *)
StartPoll ==
    /\ watch = 0
    /\ npolls < MaxPolls
    /\ npolls' = npolls + 1
    /\ signals_found' = <<>>
    /\ watch' = 1
    /\ UNCHANGED <<LAST_SIGNALS, STOCK_DATA, polled, backtest>>

(* one iteration of  for symbol in WATCHLIST ; outcome is what the data   *)
(* fetch and check_buy_signals() came to: too little data, an exception,  *)
(* or a detection                                                         *)
MonitorSymbol(outcome) ==
    /\ watch \in 1..Len(WATCHLIST)
    /\ watch' = watch + 1
    /\ LET symbol == WATCHLIST[watch]
           met(detected, alerted, raised) ==
               [symbol |-> symbol, detected |-> detected, alerted |-> alerted,
                raised |-> raised]
       IN  CASE outcome = "short" ->
                  /\ symbol \notin STOCK_DATA
                  /\ polled' = met("unknown", FALSE, FALSE)
                  /\ UNCHANGED <<LAST_SIGNALS, STOCK_DATA, signals_found>>
             [] outcome = "error" ->
                  /\ polled' = met("unknown", FALSE, TRUE)
                  /\ UNCHANGED <<LAST_SIGNALS, STOCK_DATA, signals_found>>
             [] outcome = NoSignalFound ->
                  /\ STOCK_DATA' = STOCK_DATA \cup {symbol}
                  /\ LAST_SIGNALS' =
                        IF LAST_SIGNALS[symbol] \notin {"absent", "None"}
                        THEN [LAST_SIGNALS EXCEPT ![symbol] = "None"]
                        ELSE LAST_SIGNALS
                  /\ polled' = met(outcome, FALSE, FALSE)
                  /\ UNCHANGED signals_found
             [] OTHER ->
                  /\ STOCK_DATA' = STOCK_DATA \cup {symbol}
                  /\ IF LAST_SIGNALS[symbol] = "None"
                     THEN \* None.get('type'): AttributeError, caught by the except
                          /\ polled' = met(outcome, FALSE, TRUE)
                          /\ UNCHANGED <<LAST_SIGNALS, signals_found>>
                     ELSE LET last_signal_type ==
                                  IF LAST_SIGNALS[symbol] = "absent" THEN NoSignalFound
                                  ELSE LAST_SIGNALS[symbol]
                          IN  IF last_signal_type # outcome
                              THEN /\ LAST_SIGNALS' =
                                        [LAST_SIGNALS EXCEPT ![symbol] = outcome]
                                   /\ signals_found' =
                                        Append(signals_found,
                                               [symbol |-> symbol, type |-> "BUY",
                                                signal |-> outcome])
                                   /\ polled' = met(outcome, TRUE, FALSE)
                              ELSE /\ polled' = met(outcome, FALSE, FALSE)
                                   /\ UNCHANGED <<LAST_SIGNALS, signals_found>>
    /\ UNCHANGED <<npolls, backtest>>

(* monitor_stocks() returning signals_found to scheduled_job() *)
FinishPoll ==
    /\ watch = Len(WATCHLIST) + 1
    /\ watch' = 0
    /\ UNCHANGED <<LAST_SIGNALS, STOCK_DATA, signals_found, polled, npolls, backtest>>

(* ---------------- construction ---------------- *)
Constructed(capitals) ==
    /\ kind \in Kinds
    /\ ma_type \in (IF kind = "MACross" THEN {"SMA", "EMA"} ELSE {"SMA"})
    /\ fast_period \in (IF kind = "Custom" THEN {1} ELSE Periods)
    /\ slow_period \in (IF kind = "Custom" THEN {1} ELSE Periods)
    /\ position = Zero
    /\ cash = DefaultCash
    /\ entry_price = None
    /\ prices = <<>>
    /\ fast_ma = None
    /\ slow_ma = None
    /\ prev_fast_ma = None
    /\ prev_slow_ma = None
    /\ fast_ma_history = <<>>
    /\ slow_ma_history = <<>>
    /\ custom_signal = [buy |-> FALSE, sell |-> FALSE]
    /\ data \in {Frame(cs) : cs \in
                   SeqsUpTo(Prices, IF kind = "Custom" THEN MaxCustomBars ELSE MaxBars)}
    /\ initial_capital \in capitals
    /\ trades = <<>>
    /\ equity_curve = <<>>
    /\ signals = <<>>
    /\ idx = 0
    /\ pc = "constructed"
    /\ call = NoCall
    /\ ret = FALSE
    /\ ncalls = 0
    /\ results = <<>>
    /\ prior = <<>>
    /\ MonitorStarted

Init == Constructed(Capitals)

Next ==
    \/ \E verbose \in BOOLEAN : StartRun(verbose) /\ UNCHANGED prior
    \/ OnBar
    \/ BuyBranch
    \/ SellBranch
    \/ NoSignal
    \/ AppendEquity
    \/ Return

Spec == Init /\ [][Next]_vars

(* an engine that may be given no capital at all *)
InitAnyCapital == Constructed(Capitals \cup {Zero})

SpecAnyCapital == InitAnyCapital /\ [][Next]_vars

(* ---------------- the monitoring service on its own ---------------- *)
InitMonitor == Init /\ kind = "Custom" /\ Len(data) = 0

NextMonitor ==
    \/ StartPoll
    \/ \E outcome \in Detections \cup {"short", "error"} : MonitorSymbol(outcome)
    \/ FinishPoll

SpecMonitor == InitMonitor /\ [][NextMonitor]_vars

(* ---------------- direct use of a strategy object ---------------- *)
DirectPrices == {Rat(p) : p \in Prices}
DirectSizes == {None, Rat(-1), Zero, Rat(1), Rat(100000)}

Buy(price, size) ==
    /\ pc = "constructed"
    /\ ncalls < MaxCalls
    /\ LET r == buy(State, price, size)
       IN  /\ SetState(r.state)
           /\ ret' = r.ret
    /\ call' = [op |-> "buy", price |-> price, size |-> size]
    /\ ncalls' = ncalls + 1
    /\ UNCHANGED <<monitor, params, buffers, custom_signal, data, initial_capital,
                   logs, idx, pc, results, prior>>

Sell(price, size) ==
    /\ pc = "constructed"
    /\ ncalls < MaxCalls
    /\ LET r == sell(State, price, size)
       IN  /\ SetState(r.state)
           /\ ret' = r.ret
    /\ call' = [op |-> "sell", price |-> price, size |-> size]
    /\ ncalls' = ncalls + 1
    /\ UNCHANGED <<monitor, params, buffers, custom_signal, data, initial_capital,
                   logs, idx, pc, results, prior>>

Reset ==
    /\ pc = "constructed"
    /\ ncalls < MaxCalls
    /\ reset
    /\ call' = [op |-> "reset", price |-> None, size |-> None]
    /\ ret' = FALSE
    /\ ncalls' = ncalls + 1
    /\ UNCHANGED <<monitor, params, custom_signal, data, initial_capital, logs, idx, pc,
                   results, prior>>

InitDirect == Init /\ Len(data) = 0 /\ fast_period = 1 /\ slow_period = 1

NextDirect ==
    \/ \E price \in DirectPrices, size \in DirectSizes : Buy(price, size)
    \/ \E price \in DirectPrices, size \in DirectSizes : Sell(price, size)
    \/ Reset

SpecDirect == InitDirect /\ [][NextDirect]_vars

(* ---------------- a user strategy that trades on every bar ---------------- *)
(* should_buy() answers position <= 0, should_sell() answers position > 0 *)
OnBarAlternating ==
    /\ OnBar
    /\ custom_signal' = [buy |-> RLe(position, Zero), sell |-> RGt(position, Zero)]

InitAlternating ==
    /\ kind = "Custom"
    /\ ma_type = "SMA"
    /\ fast_period = 1
    /\ slow_period = 1
    /\ position = Zero
    /\ cash = DefaultCash
    /\ entry_price = None
    /\ prices = <<>>
    /\ fast_ma = None
    /\ slow_ma = None
    /\ prev_fast_ma = None
    /\ prev_slow_ma = None
    /\ fast_ma_history = <<>>
    /\ slow_ma_history = <<>>
    /\ custom_signal = [buy |-> FALSE, sell |-> FALSE]
    /\ data \in {Frame(cs) : cs \in SeqsUpTo(Prices, MaxAlternatingBars)}
    /\ initial_capital \in Capitals
    /\ trades = <<>>
    /\ equity_curve = <<>>
    /\ signals = <<>>
    /\ idx = 0
    /\ pc = "constructed"
    /\ call = NoCall
    /\ ret = FALSE
    /\ ncalls = 0
    /\ results = <<>>
    /\ prior = <<>>
    /\ MonitorStarted

NextAlternating ==
    \/ \E verbose \in BOOLEAN : StartRun(verbose) /\ UNCHANGED prior
    \/ OnBarAlternating
    \/ BuyBranch
    \/ SellBranch
    \/ AppendEquity
    \/ Return

SpecAlternating == InitAlternating /\ [][NextAlternating]_vars

(* ---------------- the documented test scenarios (fast 5, slow 20) ---------------- *)
FlatCloses == [k \in 1..30 |-> 100]
RisingCloses == [k \in 1..31 |-> 99 + k]
VeeCloses == [k \in 1..61 |-> IF k <= 31 THEN 131 - k ELSE 69 + k]
VeeThenFallCloses == [k \in 1..91 |-> IF k <= 61 THEN VeeCloses[k] ELSE 191 - k]

InitScenario ==
    /\ kind \in {"MACross", "Template"}
    /\ data \in {Frame(FlatCloses), Frame(RisingCloses), Frame(VeeCloses),
                 Frame(VeeThenFallCloses)}
    /\ ma_type \in (IF kind = "MACross" /\ data = Frame(FlatCloses)
                    THEN {"SMA", "EMA"} ELSE {"SMA"})
    /\ fast_period = 5
    /\ slow_period = 20
    /\ position = Zero
    /\ cash = DefaultCash
    /\ entry_price = None
    /\ prices = <<>>
    /\ fast_ma = None
    /\ slow_ma = None
    /\ prev_fast_ma = None
    /\ prev_slow_ma = None
    /\ fast_ma_history = <<>>
    /\ slow_ma_history = <<>>
    /\ custom_signal = [buy |-> FALSE, sell |-> FALSE]
    /\ initial_capital \in Capitals
    /\ trades = <<>>
    /\ equity_curve = <<>>
    /\ signals = <<>>
    /\ idx = 0
    /\ pc = "constructed"
    /\ call = NoCall
    /\ ret = FALSE
    /\ ncalls = 0
    /\ results = <<>>
    /\ prior = <<>>
    /\ MonitorStarted

NextScenario ==
    \/ \E verbose \in BOOLEAN : StartRun(verbose) /\ UNCHANGED prior
    \/ OnBar
    \/ BuyBranch
    \/ SellBranch
    \/ NoSignal
    \/ AppendEquity
    \/ Return

SpecScenario == InitScenario /\ [][NextScenario]_vars

(* ---------------- a caller using one strategy for several runs ---------------- *)
(* what the caller holds when run() has returned *)
(* the lists a report shares with the engine that returned it *)
report_lists == {"trades", "equity_curve", "signals"}

(* run() emptying its lists in place, no attribute bound to a new list *)
fresh_lists_none == {}

(* the engine attributes run() binds to a new list object *)
fresh_lists == {"trades", "equity_curve", "signals"}

(* aliased: the lists of the kept report that are still the engine's own   *)
(* list objects once run() has been entered again                          *)
kept(how) ==
    [how |-> how, state |-> State, buffers |-> buffers, logs |-> logs,
     results |-> results, data |-> data,
     aliased |-> IF how = "again" THEN report_lists \ fresh_lists ELSE {}]

(* what the lists inside the kept report hold now *)
kept_report_lists ==
    [name \in report_lists |->
        IF name \in prior[1].aliased
        THEN CASE name = "trades" -> trades
               [] name = "equity_curve" -> equity_curve
               [] name = "signals" -> signals
        ELSE prior[1].results[1][name]]

(* run() called again on the same engine, the first report kept *)
RunAgain ==
    /\ pc = "done"
    /\ prior = <<>>
    /\ StartRun(FALSE)
    /\ prior' = <<kept("again")>>

(* BacktestEngine(strategy, data + one more bar, initial_capital) *)
NewEngine(close) ==
    /\ pc = "done"
    /\ prior = <<>>
    /\ Len(data) < MaxBars
    /\ data' = Frame([k \in 1..(Len(data) + 1) |->
                        IF k <= Len(data) THEN data[k].close[1] ELSE close])
    /\ trades' = <<>>
    /\ equity_curve' = <<>>
    /\ signals' = <<>>
    /\ results' = <<>>
    /\ pc' = "constructed"
    /\ prior' = <<kept("longer")>>
    /\ UNCHANGED <<monitor, params, strat, buffers, custom_signal, initial_capital,
                   idx, call, ret, ncalls>>

(* strategy.reset() called by the caller between runs *)
ResetCall ==
    /\ pc = "done"
    /\ prior # <<>>
    /\ call.op # "reset"
    /\ reset
    /\ call' = [op |-> "reset", price |-> None, size |-> None]
    /\ ret' = FALSE
    /\ UNCHANGED <<monitor, params, custom_signal, data, initial_capital, logs, idx, pc,
                   ncalls, results, prior>>

InitRerun == Init /\ kind # "Custom" /\ fast_period < slow_period

NextRerun ==
    \/ \E verbose \in BOOLEAN : StartRun(verbose) /\ UNCHANGED prior
    \/ OnBar
    \/ BuyBranch
    \/ SellBranch
    \/ NoSignal
    \/ AppendEquity
    \/ Return
    \/ RunAgain
    \/ \E close \in Prices : NewEngine(close)
    \/ ResetCall

SpecRerun == InitRerun /\ [][NextRerun]_vars

(* ======================= properties ======================= *)
Flat == position = Zero
Long == RGt(position, Zero)
RMin(a, b) == IF RLt(a, b) THEN a ELSE b

(* steps of run() seen from outside *)
BuyAttempt == pc = "signal" /\ pc' = "equity" /\ should_buy
SellAttempt == pc = "signal" /\ pc' = "equity" /\ ~should_buy /\ should_sell
TradeLogged == Len(trades') = Len(trades) + 1
EquityLogged == Len(equity_curve') = Len(equity_curve) + 1
DirectCall(op) == ncalls' = ncalls + 1 /\ call'.op = op

(* C1: in every state of a run, position >= 0, and position > 0 exactly    *)
(* when entry_price is not None.                                            *)
C1_PositionEntryInvariant ==
    /\ RGe(position, Zero)
    /\ (RGt(position, Zero) <=> entry_price # None)

(* C2: every equity point appended by the loop has value = cash +          *)
(* position_value and position_value = position * close, with the          *)
(* strategy's cash and position after that bar's buy/sell step.            *)
C2_EquityPointDecomposition ==
    [][EquityLogged =>
         LET e == Last(equity_curve')
         IN  /\ e.position_value = RMul(position, data[idx].close)
             /\ e.cash = cash
             /\ e.value = RAdd(cash, e.position_value)
             /\ e.price = data[idx].close]_vars

C2_Witness ==
    /\ Len(equity_curve) > 0
    /\ RGt(Last(equity_curve).position_value, Zero)
    /\ RGt(Last(equity_curve).cash, Zero)

(* C3: one bar logs at most one trade; a SELL is logged only on a bar      *)
(* whose should_buy() was false; the position changes only together with   *)
(* the one trade of the bar.                                               *)
C3_AtMostOneTradePerBar ==
    /\ [](\A i, j \in DOMAIN trades :
             i # j => trades[i].datetime # trades[j].datetime)
    /\ [][/\ Len(trades') <= Len(trades) + 1
          /\ (TradeLogged /\ Last(trades').type = "SELL") => ~should_buy
          /\ (pc = "signal" /\ position' # position) => TradeLogged]_vars

C3_Witness ==
    /\ pc = "equity"
    /\ custom_signal.buy
    /\ custom_signal.sell
    /\ Len(trades) > 0
    /\ Last(trades).datetime = ThisBar
    /\ Last(trades).type = "BUY"
    /\ Long

(* C4: the strategy is FLAT (position = 0) or LONG (position > 0); a       *)
(* successful buy starts FLAT and ends LONG, a successful sell starts LONG *)
(* and, selling the whole position, ends FLAT; a buy while LONG and a sell *)
(* while FLAT return false; nothing else moves the position.               *)
C4_TwoStateMachine ==
    [][/\ Flat' \/ Long'
       /\ (BuyAttempt /\ ret') => (Flat /\ Long')
       /\ (SellAttempt /\ ret') => (Long /\ Flat')
       /\ (BuyAttempt /\ Long) => ~ret'
       /\ (SellAttempt /\ Flat) => ~ret'
       /\ (pc = "signal" /\ position' # position) =>
             ((BuyAttempt \/ SellAttempt) /\ ret')]_vars

(* C5: buy(price, size) returns false and changes nothing when a position  *)
(* is held or price*size > cash; otherwise it returns true and sets        *)
(* position = size, entry_price = price, cash = cash - price*size.         *)
C5_BuyContract ==
    [][DirectCall("buy") =>
         LET price == call'.price
             size == IF call'.size = None THEN get_position_size(State)
                     ELSE call'.size
             cost == RMul(price, size)
         IN  IF RGt(position, Zero) \/ RGt(cost, cash)
             THEN ~ret' /\ UNCHANGED strat
             ELSE /\ ret'
                  /\ position' = size
                  /\ entry_price' = price
                  /\ cash' = RSub(cash, cost)]_vars

C5_Witness ==
    /\ call.op = "buy"
    /\ ret
    /\ call.size = Rat(100000)
    /\ position = Rat(100000)
    /\ cash = Zero

(* C6: sell(price, size) returns false and changes nothing when            *)
(* position <= 0; otherwise it sells position (size omitted) or            *)
(* min(size, position), adds price * sold to cash, takes sold off the      *)
(* position, and clears entry_price exactly when the position reaches 0.   *)
C6_SellContract ==
    [][DirectCall("sell") =>
         IF RLe(position, Zero)
         THEN ~ret' /\ UNCHANGED strat
         ELSE LET sold == IF call'.size = None THEN position
                          ELSE RMin(call'.size, position)
              IN  /\ ret'
                  /\ cash' = RAdd(cash, RMul(call'.price, sold))
                  /\ position' = RSub(position, sold)
                  /\ (entry_price' = None <=> position' = Zero)
                  /\ (position' # Zero => entry_price' = entry_price)]_vars

C6_Witness ==
    /\ call.op = "sell"
    /\ ret
    /\ call.size = Rat(100000)
    /\ call.price = Rat(2)
    /\ position = Zero
    /\ entry_price = None
    /\ cash = Rat(100001)

(* C7 (as claimed): for every strategy class, should_buy() is false        *)
(* whenever position > 0 and should_sell() is false whenever               *)
(* position <= 0.                                                          *)
C7_GuardsForEveryStrategy ==
    /\ RGt(position, Zero) => ~should_buy
    /\ RLe(position, Zero) => ~should_sell

(* C7 (amended): for MACrossStrategy and TemplateStrategy, should_buy()    *)
(* is false whenever position > 0 and should_sell() is false whenever      *)
(* position <= 0; the guard is each subclass's own.                        *)
C7_GuardsOfShippedStrategies ==
    kind \in {"MACross", "Template"} =>
        /\ RGt(position, Zero) => ~should_buy
        /\ RLe(position, Zero) => ~should_sell

C7_Witness ==
    /\ kind = "MACross"
    /\ Long
    /\ ~should_buy
    /\ MACross_should_buy_unguarded

(* C8: a BUY trade records the position right after the buy; a SELL trade  *)
(* records the position right before the sell, not the one after it.       *)
C8_TradeSizeCapture ==
    [][TradeLogged =>
         LET t == Last(trades')
         IN  /\ t.type = "BUY" => t.size = position'
             /\ t.type = "SELL" => (t.size = position /\ t.size # position')]_vars

C8_Witness ==
    /\ pc = "equity"
    /\ Len(trades) > 1
    /\ Last(trades).type = "SELL"
    /\ Last(trades).datetime = ThisBar
    /\ RGt(Last(trades).size, Zero)
    /\ Flat

(* C9: every trade and signal logged while bar k is processed carries      *)
(* bar k's timestamp and bar k's close as its price.                       *)
C9_FilledAtThisBarsClose ==
    /\ [](/\ \A i \in DOMAIN trades : \E k \in 1..idx :
               /\ trades[i].datetime = isoformat(data[k].datetime)
               /\ trades[i].price = data[k].close
          /\ \A i \in DOMAIN signals : \E k \in 1..idx :
               /\ signals[i].datetime = isoformat(data[k].datetime)
               /\ signals[i].price = data[k].close)
    /\ [][TradeLogged =>
            /\ Last(trades').datetime = isoformat(data[idx].datetime)
            /\ Last(trades').price = data[idx].close
            /\ Len(signals') = Len(signals) + 1
            /\ Last(signals').datetime = isoformat(data[idx].datetime)
            /\ Last(signals').price = data[idx].close]_vars

C9_Witness ==
    /\ pc = "equity"
    /\ Len(trades) > 0
    /\ Last(trades).datetime = ThisBar
    /\ data[idx].open # data[idx].close
    /\ data[idx].high # data[idx].close
    /\ Len(signals) = Len(trades)

(* C10: when a run starts, before its first bar, position = 0,             *)
(* entry_price is None, cash = initial_capital and the three logs are      *)
(* empty, whatever the strategy and the engine held before.                *)
C10_RunStartsClean ==
    ((pc = "on_bar" /\ idx = 1) \/ (pc = "metrics" /\ idx = 0)) =>
        /\ position = Zero
        /\ entry_price = None
        /\ cash = initial_capital
        /\ trades = <<>>
        /\ equity_curve = <<>>
        /\ signals = <<>>

C10_Witness ==
    /\ pc = "on_bar"
    /\ idx = 1
    /\ custom_signal.buy
    /\ cash = initial_capital
    /\ cash # DefaultCash

(* C11: reset() called on a strategy, from any state, restores cash to the  *)
(* run's initial capital, sets position to 0, clears entry_price and clears *)
(* every indicator buffer of the strategy.                                  *)
C11_ResetRestoresRunCapital ==
    [][(call.op # "reset" /\ call'.op = "reset") =>
         /\ cash' = initial_capital
         /\ position' = Zero
         /\ entry_price' = None
         /\ prices' = <<>>
         /\ fast_ma' = None /\ slow_ma' = None
         /\ prev_fast_ma' = None /\ prev_slow_ma' = None
         /\ fast_ma_history' = <<>> /\ slow_ma_history' = <<>>]_vars

(* C12: a second run of the same strategy instance over the same bars       *)
(* returns the report the first run returned - metrics, trades, equity     *)
(* curve and signals - whatever state the first run left the strategy in.  *)
C12_RerunSameReport ==
    (prior # <<>> /\ prior[1].how = "again") =>
        /\ pc = "raised" => Len(data) = 0      \* only run(verbose=True) without bars
        /\ pc = "done" => results = prior[1].results

C12_Witness ==
    /\ prior # <<>>
    /\ prior[1].how = "again"
    /\ pc = "done"
    /\ RGt(prior[1].state.position, Zero)
    /\ Len(prior[1].buffers[1]) = MaxBars - 1
    /\ prior[1].buffers[2] # None
    /\ Len(results[1].trades) > 0

(* C13: the run is causal: with one more bar appended to the series, the    *)
(* strategy state, indicator buffers, trades, signals and equity points    *)
(* after bar k are those of the run that ended at bar k.                   *)
C13_Causal ==
    (/\ prior # <<>>
     /\ prior[1].how = "longer"
     /\ pc = "on_bar"
     /\ idx = Len(prior[1].data) + 1) =>
        /\ State = prior[1].state
        /\ buffers = prior[1].buffers
        /\ logs = prior[1].logs

C13_Witness ==
    /\ prior # <<>>
    /\ prior[1].how = "longer"
    /\ pc = "on_bar"
    /\ idx = Len(prior[1].data) + 1
    /\ Len(trades) > 0
    /\ Long
    /\ data[idx].close # data[idx - 1].close

(* ---- the report of a finished run, described from the trade log ---- *)
Reported == pc = "done" /\ Len(data) > 0
NumOf(type) == Cardinality({k \in 1..Len(trades) : trades[k].type = type})
NthOf(type, i) ==
    trades[CHOOSE k \in 1..Len(trades) :
              /\ trades[k].type = type
              /\ Cardinality({j \in 1..k : trades[j].type = type}) = i]
NumPairs == IF NumOf("BUY") < NumOf("SELL") THEN NumOf("BUY") ELSE NumOf("SELL")
PairProfit(i) ==
    LET b == NthOf("BUY", i).price
        sl == NthOf("SELL", i).price
    IN  RMul(RDiv(RSub(sl, b), b), Rat(100))
EquityValues == [i \in 1..Len(equity_curve) |-> equity_curve[i].value]

(* C14: total_trades is min(#BUY, #SELL) of the trade log, and the i-th     *)
(* pair is the i-th BUY with the i-th SELL in log order, its profit_pct     *)
(* being (sell_price - buy_price) / buy_price * 100.                        *)
C14_FifoPairs ==
    Reported =>
        /\ results[1].total_trades = NumPairs
        /\ Len(profits(trades)) = NumPairs
        /\ \A i \in 1..NumPairs : profits(trades)[i] = PairProfit(i)
        /\ NumPairs > 0 =>
             /\ results[1].max_profit_pct =
                  round2(RMaxOf([i \in 1..NumPairs |-> PairProfit(i)]))
             /\ results[1].max_loss_pct =
                  round2(RMinOf([i \in 1..NumPairs |-> PairProfit(i)]))

C14_Witness ==
    /\ Reported
    /\ NumOf("BUY") = 3
    /\ NumOf("SELL") = 2
    /\ RGt(PairProfit(1), Zero)
    /\ RLt(PairProfit(2), Zero)

C16_WonLostPartition ==
    Reported =>
        /\ results[1].won_trades =
             Cardinality({i \in 1..NumPairs :
                            RGt(NthOf("SELL", i).price, NthOf("BUY", i).price)})
        /\ results[1].lost_trades =
             Cardinality({i \in 1..NumPairs :
                            RLe(NthOf("SELL", i).price, NthOf("BUY", i).price)})
        /\ results[1].won_trades + results[1].lost_trades = results[1].total_trades

C16_Witness ==
    /\ Reported
    /\ results[1].won_trades = 1
    /\ results[1].lost_trades = 2
    /\ \E i \in 1..NumPairs : NthOf("SELL", i).price = NthOf("BUY", i).price

GrossProfit ==
    RSum(SelectSeq([i \in 1..NumPairs |-> PairProfit(i)], LAMBDA p : RGt(p, Zero)))
GrossLoss ==
    RSum(SelectSeq([i \in 1..NumPairs |-> RSub(Zero, PairProfit(i))],
                   LAMBDA p : RGt(p, Zero)))

(* C17 as claimed: profit_factor is +infinity without loss and with profit, *)
(* 0 without loss and without profit, and gross_profit / gross_loss         *)
(* otherwise.                                                               *)
C17_ProfitFactorExact ==
    Reported =>
        results[1].profit_factor =
            IF GrossLoss = Zero
            THEN IF RGt(GrossProfit, Zero) THEN Inf ELSE Zero
            ELSE RDiv(GrossProfit, GrossLoss)

(* C17: profit_factor is +infinity without loss and with profit, 0 without  *)
(* loss and without profit, and otherwise gross_profit / gross_loss         *)
(* rounded to 2 decimals.                                                   *)
C17_ProfitFactorRounded ==
    Reported =>
        results[1].profit_factor =
            IF GrossLoss = Zero
            THEN IF RGt(GrossProfit, Zero) THEN Inf ELSE Zero
            ELSE round2(RDiv(GrossProfit, GrossLoss))

C17_Witness ==
    /\ Reported
    /\ RGt(GrossLoss, Zero)
    /\ RGt(GrossProfit, Zero)
    /\ results[1].profit_factor # RDiv(GrossProfit, GrossLoss)

(* C18: the divisions by zero of win rate, profit factor and Sharpe ratio   *)
(* are answered by sentinels and never raised: without a completed pair     *)
(* the run returns, with win_rate, avg, max and min profit and profit       *)
(* factor 0, and with fewer than two returns the Sharpe ratio is 0;         *)
(* otherwise win_rate is won_trades / total_trades * 100 (as a reported     *)
(* percentage, rounded to 2 decimals).                                      *)
C18_SentinelsNotRaised ==
    /\ [][(pc = "metrics" /\ NumPairs = 0) =>
            /\ pc' = "done"
            /\ Len(data) > 0 =>
                 /\ results'[1].win_rate = Zero
                 /\ results'[1].avg_profit_pct = Zero
                 /\ results'[1].max_profit_pct = Zero
                 /\ results'[1].max_loss_pct = Zero
                 /\ results'[1].profit_factor = Zero]_vars
    /\ [][(pc = "metrics" /\ pc' = "done" /\ Len(data) > 0) =>
            /\ Len(equity_curve) <= 2 => results'[1].sharpe_ratio.zero
            /\ (\A i \in 1..Len(equity_curve) : EquityValues[i] = EquityValues[1])
                  => results'[1].sharpe_ratio.zero
            /\ NumPairs > 0 =>
                 results'[1].win_rate =
                     round2(<<100 * results'[1].won_trades, NumPairs>>)]_vars

C18_Witness ==
    /\ Reported
    /\ results[1].total_trades = 0
    /\ NumOf("BUY") > 0
    /\ Len(equity_curve) > 2
    /\ results[1].sharpe_ratio.zero

PeakAt(i) == RMaxOf(SubSeq(EquityValues, 1, i))
DrawdownAt(i) == RMul(RDiv(RSub(PeakAt(i), EquityValues[i]), PeakAt(i)), Rat(100))

(* C19: max_drawdown is the maximum over the equity points i of             *)
(* (peak_i - value_i) / peak_i * 100, peak_i being the largest value among  *)
(* points 0..i; it is 0 for a non-decreasing curve and never negative (the  *)
(* report carries it rounded to 2 decimals).                                *)
C19_MaxDrawdown ==
    Reported =>
        LET n == Len(equity_curve)
            dd == calculate_max_drawdown(EquityValues)
        IN  /\ \A i \in 1..n : RGe(dd, DrawdownAt(i))
            /\ \E i \in 1..n : dd = DrawdownAt(i)
            /\ RGe(dd, Zero)
            /\ (\A i \in 1..(n - 1) : RLe(EquityValues[i], EquityValues[i + 1]))
                  => dd = Zero
            /\ results[1].max_drawdown_pct = round2(dd)

C19_Witness ==
    /\ Reported
    /\ RGt(results[1].max_drawdown_pct, Zero)
    /\ \E i \in 1..Len(equity_curve) :
          /\ RGt(PeakAt(i), EquityValues[1])
          /\ RGt(Last(equity_curve).value, EquityValues[1])
          /\ results[1].max_drawdown_pct = round2(DrawdownAt(i))

LosingRun(a, b) == \A i \in a..b : RLe(PairProfit(i), Zero)

(* C20: max_consecutive_losses is the length of the longest contiguous run  *)
(* of pairs with profit_pct <= 0 in pair order: a breakeven pair extends a  *)
(* losing run, a pair with profit_pct > 0 ends it, and it is 0 when no pair *)
(* is lost.                                                                 *)
C20_LongestLosingRun ==
    Reported =>
        LET m == results[1].max_consecutive_losses
        IN  /\ \A a \in 1..NumPairs, b \in 1..NumPairs :
                  (a <= b /\ LosingRun(a, b)) => b - a + 1 <= m
            /\ m > 0 => \E a \in 1..NumPairs : (a + m - 1 <= NumPairs /\ LosingRun(a, a + m - 1))
            /\ m >= 0
            /\ results[1].lost_trades = 0 => m = 0

C20_Witness ==
    /\ Reported
    /\ NumPairs = 3
    /\ RLt(PairProfit(1), Zero)
    /\ RGt(PairProfit(2), Zero)
    /\ PairProfit(3) = Zero
    /\ results[1].max_consecutive_losses = 1

(* C21: a run over an empty bar series does not raise: it returns a report   *)
(* with zeroed metrics and a no-data marker.                                *)
C21_EmptySeriesReturnsReport ==
    Len(data) = 0 =>
        /\ pc # "raised"
        /\ pc = "done" =>
             /\ results[1].error = "No data"
             /\ results[1].total_trades = 0
             /\ results[1].return_pct = Zero
             /\ results[1].final_value = initial_capital

(* C22: a buy or sell attempt that returns false appends no trade and no    *)
(* signal for that bar and raises nothing; the bar's equity point is still  *)
(* appended and every remaining bar is processed.                           *)
C22_FailedAttemptAbsorbed ==
    /\ [][((BuyAttempt \/ SellAttempt) /\ ~ret') =>
            /\ trades' = trades
            /\ signals' = signals
            /\ equity_curve' = equity_curve
            /\ idx' = idx]_vars
    /\ [][pc = "equity" =>
            /\ Len(equity_curve') = idx
            /\ Last(equity_curve').datetime = ThisBar
            /\ IF idx < Len(data)
               THEN pc' = "on_bar" /\ idx' = idx + 1
               ELSE pc' = "metrics"]_vars
    /\ [](pc \in {"metrics", "done"} => Len(equity_curve) = Len(data))
    /\ [](pc = "raised" => (Len(data) = 0 \/ (idx = Len(data) /\ Len(equity_curve) = idx)))

C22_Witness ==
    /\ pc = "done"
    /\ Len(data) = MaxCustomBars
    /\ Len(equity_curve) = MaxCustomBars
    /\ call.op = "sell"
    /\ ~ret
    /\ signals = <<>>
    /\ trades = <<>>

(* C23: Scenario A: on a flat series of 30 bars closing at 100, the MA     *)
(* cross strategy (fast 5, slow 20) makes no trade, and the report shows   *)
(* zero trades, return_pct = 0 and max_drawdown_pct = 0.                   *)
C23_FlatSeriesNoTrades ==
    data = Frame(FlatCloses) =>
        /\ trades = <<>>
        /\ signals = <<>>
        /\ pc = "done" =>
              /\ results[1].total_trades = 0
              /\ results[1].trades = <<>>
              /\ results[1].return_pct = Zero
              /\ results[1].max_drawdown_pct = Zero

C23_Witness ==
    /\ data = Frame(FlatCloses)
    /\ pc = "done"
    /\ Len(equity_curve) = 30
    /\ fast_ma = Rat(100)
    /\ slow_ma = Rat(100)
    /\ prev_slow_ma = Rat(100)

(* C24 (as claimed): Scenario B: on the series rising 100, 101, ..., 130   *)
(* exactly one BUY fires, no SELL follows, the position is open at the     *)
(* end, no pair is completed and the trades log has length 1.              *)
C24_RisingSeriesOneBuy ==
    (data = Frame(RisingCloses) /\ pc = "done") =>
        /\ NumOf("BUY") = 1
        /\ NumOf("SELL") = 0
        /\ Long
        /\ results[1].total_trades = 0
        /\ Len(results[1].trades) = 1

(* C24 (amended): Scenario B: on the series rising 100, 101, ..., 130 the  *)
(* fast average is above the slow one from the first bar both are defined, *)
(* so no cross happens: no BUY and no SELL fires, the position stays flat, *)
(* no pair is completed and the trades log is empty.                       *)
C24_RisingSeriesNoCross ==
    data = Frame(RisingCloses) =>
        /\ trades = <<>>
        /\ Flat
        /\ (fast_ma # None /\ slow_ma # None) => RGt(fast_ma, slow_ma)
        /\ pc = "done" =>
              /\ results[1].total_trades = 0
              /\ Len(results[1].trades) = 0

C24_Witness ==
    /\ data = Frame(RisingCloses)
    /\ pc = "done"
    /\ Len(equity_curve) = 31
    /\ prev_fast_ma # None
    /\ prev_slow_ma # None
    /\ RGt(prev_fast_ma, prev_slow_ma)
    /\ RGt(fast_ma, slow_ma)

(* C25 (as claimed): Scenario C: the V-shaped series produces exactly one  *)
(* completed trade pair, and avg_profit_pct is that pair's                 *)
(* (sell - buy) / buy * 100 rounded to 2 decimals.                         *)
C25_VeeSeriesOnePair ==
    (data = Frame(VeeCloses) /\ pc = "done") =>
        /\ NumPairs = 1
        /\ results[1].total_trades = 1
        /\ results[1].avg_profit_pct = round2(PairProfit(1))

(* C25 (amended): Scenario C: the V-shaped series (fall, then rise)        *)
(* produces exactly one BUY on the way up and no SELL: the position is     *)
(* open at the end, no pair is completed and avg_profit_pct is 0. Once the *)
(* series falls again after the rise, the SELL fires, exactly one pair is  *)
(* completed and avg_profit_pct is that pair's (sell - buy) / buy * 100    *)
(* rounded to 2 decimals.                                                  *)
C25_VeeSeriesOneBuy ==
    /\ (data = Frame(VeeCloses) /\ pc = "done") =>
          /\ NumOf("BUY") = 1
          /\ NumOf("SELL") = 0
          /\ Long
          /\ results[1].total_trades = 0
          /\ results[1].avg_profit_pct = Zero
    /\ (data = Frame(VeeThenFallCloses) /\ pc = "done") =>
          /\ NumOf("BUY") = 1
          /\ NumOf("SELL") = 1
          /\ Flat
          /\ results[1].total_trades = 1
          /\ results[1].avg_profit_pct = round2(PairProfit(1))

C25_Witness ==
    /\ data = Frame(VeeCloses)
    /\ pc = "done"
    /\ Len(trades) = 1
    /\ trades[1].type = "BUY"
    /\ RGt(trades[1].price, Rat(100))
    /\ Long

ReturnAt(i) == RSub(RDiv(EquityValues[i + 1], EquityValues[i]), Rat(1))

(* C26: the Sharpe ratio is 0 exactly when there are fewer than 2 per-bar  *)
(* returns (an equity curve of 1 or 2 points) or the returns have          *)
(* standard deviation 0 (all of them equal); only otherwise is             *)
(* sqrt(252) * mean / std computed, from the per-bar returns               *)
(* value[i+1] / value[i] - 1.                                              *)
C26_SharpeZeroCases ==
    Reported =>
        LET n == Len(equity_curve)
            sharpe == results[1].sharpe_ratio
        IN  /\ sharpe.zero <=>
                  \/ n - 1 < 2
                  \/ \A i, j \in 1..(n - 1) : ReturnAt(i) = ReturnAt(j)
            /\ ~sharpe.zero =>
                  sharpe.mean_over_std_of = [i \in 1..(n - 1) |-> ReturnAt(i)]

C26_Witness ==
    /\ Reported
    /\ Len(equity_curve) = 2
    /\ EquityValues[1] # EquityValues[2]
    /\ results[1].sharpe_ratio.zero

(* C27: default sizing: every buy the loop attempts at a close p > 0 while *)
(* flat asks for size 0.95 * cash / p; the order costs 95% of the cash     *)
(* held before it, never fails for lack of funds, and leaves 5% of that    *)
(* cash.                                                                   *)
C27_DefaultSizing ==
    [][(BuyAttempt /\ Flat /\ RGt(current_price, Zero)) =>
          /\ call'.op = "buy"
          /\ call'.price = current_price
          /\ call'.size = RDiv(RMul(<<95, 100>>, cash), current_price)
          /\ RMul(call'.price, call'.size) = RMul(<<95, 100>>, cash)
          /\ ret'
          /\ position' = call'.size
          /\ cash' = RMul(<<5, 100>>, cash)]_vars

C27_Witness ==
    /\ pc = "equity"
    /\ call.op = "buy"
    /\ ret
    /\ RGt(call.price, Rat(1))
    /\ Len(trades) = 1
    /\ RGt(cash, Zero)
    /\ cash = RMul(<<5, 100>>, initial_capital)
    /\ position = RDiv(RMul(<<95, 100>>, initial_capital), call.price)

(* C28: no sequence of direct buy / sell / reset calls, at any price >= 0  *)
(* and with any size (omitted, zero, negative, larger than the holding),   *)
(* drives position below 0 or leaves the strategy in a state other than    *)
(* FLAT (position = 0, entry_price unset) or LONG (position > 0,           *)
(* entry_price set).                                                       *)
C28_FlatOrLongOnly ==
    /\ RGe(position, Zero)
    /\ \/ position = Zero /\ entry_price = None
       \/ RGt(position, Zero) /\ entry_price # None

(* C29: in the loop, a bar on which the buy attempt fails leaves position, *)
(* cash and entry_price exactly as they were before the attempt.           *)
C29_FailedBuyChangesNothing ==
    [][(BuyAttempt /\ ~ret') => UNCHANGED <<position, cash, entry_price>>]_vars

(* C30: on every bar on which no buy is taken (should_buy() false, or      *)
(* should_buy() true and the buy failed) the loop evaluates should_sell()  *)
(* and, if it is true, attempts sell(close).                               *)
C30_SellCheckedWhenNoBuyTaken ==
    [][(/\ pc = "signal"
        /\ pc' = "equity"
        /\ should_sell
        /\ ~should_buy \/ ~(call'.op = "buy" /\ ret')) =>
            /\ call'.op = "sell"
            /\ call'.price = current_price
            /\ call'.size = None]_vars

(* C31: the loop appends exactly one equity point per bar, in bar order    *)
(* and stamped with that bar's timestamp, whether or not a trade happened: *)
(* after k bars the equity curve has k points, and in the report           *)
(* len(equity_curve) = trading_days = number of bars.                      *)
C31_OneEquityPointPerBar ==
    /\ pc \in {"on_bar", "signal", "equity"} => Len(equity_curve) = idx - 1
    /\ pc \in {"metrics", "done"} => Len(equity_curve) = Len(data)
    /\ \A i \in 1..Len(equity_curve) :
          /\ i <= Len(data)
          /\ equity_curve[i].datetime = isoformat(data[i].datetime)
          /\ equity_curve[i].price = data[i].close
    /\ Reported =>
          /\ Len(results[1].equity_curve) = results[1].trading_days
          /\ results[1].trading_days = Len(data)
          /\ results[1].equity_curve = equity_curve

C31_Witness ==
    /\ Reported
    /\ Len(results[1].equity_curve) = MaxBars
    /\ Len(trades) = 1
    /\ trades[1].datetime = equity_curve[MaxBars - 1].datetime

(* C32: in the trade log of any run over bars with closes >= 0 the sides   *)
(* strictly alternate beginning with BUY (never two BUYs or two SELLs in a *)
(* row), so #BUY - #SELL is 0 or 1 at every point of the run.              *)
C32_SidesAlternate ==
    /\ \A k \in 1..Len(trades) :
          trades[k].type = IF k % 2 = 1 THEN "BUY" ELSE "SELL"
    /\ NumOf("BUY") - NumOf("SELL") \in {0, 1}

(* C33: for every non-empty bar series with all prices >= 0 and every      *)
(* initial_capital > 0, run() completes and returns a report: the metrics  *)
(* never divide by zero (not in a pair's profit_pct by its buy price, not  *)
(* in the drawdown by the peak, not in return_pct).                        *)
C33_RunReturnsReport ==
    (Len(data) > 0 /\ RGt(initial_capital, Zero)) =>
        /\ pc # "raised"
        /\ pc = "metrics" => ~metrics_raise

(* C34: the trades and signals logs advance in lock-step: at every point   *)
(* of a run they have the same length and the i-th signal has the          *)
(* timestamp, side and price of the i-th trade; a signal is never logged   *)
(* for an attempt that failed.                                             *)
C34_SignalsMirrorTrades ==
    /\ Len(signals) = Len(trades)
    /\ \A i \in 1..Len(signals) :
          /\ i <= Len(trades)
          /\ signals[i].datetime = trades[i].datetime
          /\ signals[i].signal = trades[i].type
          /\ signals[i].price = trades[i].price
    /\ (pc = "equity" /\ Len(signals) > 0 /\ Last(signals).datetime = ThisBar) =>
          /\ ret
          /\ call.op = (IF Last(signals).signal = "BUY" THEN "buy" ELSE "sell")
          /\ call.price = Last(signals).price

C34_Witness ==
    /\ pc = "done"
    /\ Len(signals) = 2
    /\ signals[1].signal = "BUY"
    /\ signals[2].signal = "SELL"
    /\ signals[2].price # signals[1].price
    /\ call.op = "sell"
    /\ ~ret

MovingAverageRun ==
    /\ kind \in {"MACross", "Template"}
    /\ kind = "MACross" => ma_type = "SMA"
    /\ fast_period <= slow_period

(* C35: for the moving-average strategies (MACrossStrategy in SMA mode and *)
(* TemplateStrategy) with fast_period <= slow_period, no BUY or SELL is    *)
(* logged on any of the first slow_period bars of a run: a trade can first *)
(* occur on bar slow_period + 1, when the current and the previous value   *)
(* of both averages are defined.                                           *)
C35_NoTradeInWarmUp ==
    MovingAverageRun =>
        /\ \A i \in 1..Len(trades) : \A k \in 1..Len(data) :
              k <= slow_period => trades[i].datetime # isoformat(data[k].datetime)
        /\ \A i \in 1..Len(signals) : \A k \in 1..Len(data) :
              k <= slow_period => signals[i].datetime # isoformat(data[k].datetime)
        /\ (pc = "signal" /\ idx <= slow_period) =>
              /\ ~should_buy
              /\ ~should_sell
              /\ None \in {slow_ma, prev_slow_ma}

C35_Witness ==
    /\ MovingAverageRun
    /\ slow_period = MaxPeriod
    /\ pc = "equity"
    /\ idx = slow_period + 1
    /\ Len(trades) = 1
    /\ trades[1].datetime = ThisBar
    /\ None \notin {fast_ma, slow_ma, prev_fast_ma, prev_slow_ma}

(* C36: throughout any run with initial_capital >= 0 and closes >= 0 under *)
(* the default sizing policy, cash never becomes negative, at any bar.     *)
C36_CashNeverNegative ==
    /\ RGe(cash, Zero)
    /\ \A i \in 1..Len(equity_curve) : RGe(equity_curve[i].cash, Zero)

C36_Witness ==
    /\ initial_capital = Zero
    /\ pc = "equity"
    /\ idx = 2
    /\ call.op = "buy"
    /\ ret
    /\ RGt(call.price, Zero)
    /\ cash = Zero
    /\ Len(trades) = 2

(* C37: a trade executed at the bar's close is value-neutral: on a bar     *)
(* where a BUY or SELL succeeds, the equity value recorded for that bar is *)
(* the pre-trade cash plus the pre-trade position times that bar's close,  *)
(* so total equity changes only through price moves while long and stays   *)
(* constant across consecutive bars while flat.                            *)
C37_TradesAreValueNeutral ==
    [][/\ (pc = "signal" /\ pc' = "equity") =>
            LET recorded == RAdd(cash', RMul(position', current_price))
                before == RAdd(cash, RMul(position, current_price))
            IN  /\ TradeLogged => recorded = before
                /\ idx > 1 =>
                      recorded = RAdd(Last(equity_curve).value,
                                      RMul(position, RSub(data[idx].close,
                                                          data[idx - 1].close)))
                /\ (idx > 1 /\ Flat) => recorded = Last(equity_curve).value
       /\ (pc = "equity" /\ pc' # "equity") =>
            /\ Len(equity_curve') = Len(equity_curve) + 1
            /\ Last(equity_curve').value = RAdd(cash, RMul(position, current_price))]_vars

C37_Witness ==
    /\ pc = "on_bar"
    /\ idx = 3
    /\ Len(trades) = 2
    /\ trades[2].type = "SELL"
    /\ trades[2].datetime = equity_curve[2].datetime
    /\ trades[2].price # trades[1].price
    /\ equity_curve[2].value # equity_curve[1].value
    /\ equity_curve[2].value = cash

(* C38: a report returned by an earlier run is not changed by a later run  *)
(* on the same engine: the trades, equity_curve and signals lists inside   *)
(* the first report keep their contents after run() is called again.       *)
C38_FirstReportKept ==
    (prior # <<>> /\ prior[1].how = "again" /\ Len(data) > 0) =>
        /\ kept_report_lists["trades"] = prior[1].logs[1]
        /\ kept_report_lists["equity_curve"] = prior[1].logs[2]
        /\ kept_report_lists["signals"] = prior[1].logs[3]

C38_Witness ==
    /\ prior # <<>>
    /\ prior[1].how = "again"
    /\ pc = "equity"
    /\ Len(trades) = 1
    /\ Len(kept_report_lists["trades"]) = 2
    /\ Len(equity_curve) < Len(kept_report_lists["equity_curve"])
    /\ Len(kept_report_lists["signals"]) = 2

(* C39: in the monitoring service, over any sequence of polls of a symbol, *)
(* an alert is issued on a poll only if the detected buy-signal type       *)
(* differs from the type last recorded for that symbol: while the same     *)
(* type persists over consecutive polls exactly one alert is issued, and   *)
(* after a poll that finds no signal the record is cleared, so that the    *)
(* next occurrence of the signal alerts again.                             *)
C39_AlertOnEachNewSignal ==
    [][(watch \in 1..Len(WATCHLIST) /\ watch' = watch + 1
          /\ polled'.detected \in Detections) =>
            LET symbol == WATCHLIST[watch]
                detected == polled'.detected
                recorded == IF LAST_SIGNALS[symbol] \in {"absent", "None"}
                            THEN NoSignalFound ELSE LAST_SIGNALS[symbol]
            IN  /\ polled'.alerted <=>
                      (detected # NoSignalFound /\ detected # recorded)
                /\ polled'.alerted <=>
                      /\ Len(signals_found') = Len(signals_found) + 1
                      /\ Last(signals_found').symbol = symbol
                      /\ Last(signals_found').signal = detected
                /\ detected = NoSignalFound =>
                      LAST_SIGNALS'[symbol] \in {"absent", "None"}
                /\ detected # NoSignalFound => LAST_SIGNALS'[symbol] = detected]_vars
====
